---- MODULE Spec2Model ----
(***************************************************************************)
(* Model of app.py: the Streamlit script that reads an uploaded CSV of     *)
(* judicial processes, calls procesar_datos on a copy of it and renders    *)
(* the classified table and the table of processes that are more than two  *)
(* calendar months without an action.                                      *)
(*                                                                         *)
(* Text is a sequence of one-character strings.  A moment is a number of   *)
(* hours since 2022-01-01 00:00 (the files hold whole hours only); NaT is  *)
(* the moment -1.  A datetime is a record [y, m, d, h].                    *)
(***************************************************************************)
EXTENDS Integers, Sequences, FiniteSets, TLC

VARIABLES
    clock,          \* what datetime.now() returned to the latest call
    uploaded_file,  \* the CSV the user uploaded (NoFile before any upload)
    heap,           \* the DataFrame objects: heap.original is df_original,
                    \* heap.copy is the object df_original.copy() made
    arg,            \* which object procesar_datos received as df
    out,            \* the six values procesar_datos returned to the script
    err,            \* what st.error showed inside procesar_datos
    view,           \* what the script rendered after the call
    prev,           \* the script run before this one, when on the same file
    quicksort_ties  \* how this build's unstable sort orders equal keys

vars == <<clock, uploaded_file, heap, arg, out, err, view, prev, quicksort_ties>>

----------------------------------------------------------------------------
(* Bounds of the model *)

MaxRows == 2

----------------------------------------------------------------------------
(* Column names (lines 15-17; the accents of the source are left out) *)

COL_ACTUACION == "Ultima Actuacion"
COL_FECHA == "Fecha Actuacion"
COL_CASO == "Numero Noticia"

Columns == {COL_CASO, COL_FECHA, COL_ACTUACION}

----------------------------------------------------------------------------
(* Civil calendar: datetime, relativedelta, Timestamp arithmetic *)

NaT == 0 - 1

IsLeap(y) == (y % 4 = 0 /\ y % 100 # 0) \/ y % 400 = 0

DaysInMonth(y, m) ==
    IF m = 2 THEN (IF IsLeap(y) THEN 29 ELSE 28)
    ELSE IF m \in {4, 6, 9, 11} THEN 30 ELSE 31

DaysInYear(y) == IF IsLeap(y) THEN 366 ELSE 365

RECURSIVE DaysBeforeYear(_)
DaysBeforeYear(y) ==
    IF y <= 2022 THEN 0 ELSE DaysBeforeYear(y - 1) + DaysInYear(y - 1)

RECURSIVE DaysBeforeMonth(_, _)
DaysBeforeMonth(y, m) ==
    IF m <= 1 THEN 0 ELSE DaysBeforeMonth(y, m - 1) + DaysInMonth(y, m - 1)

\* the moment of a datetime, in hours
Timestamp(dt) ==
    (DaysBeforeYear(dt.y) + DaysBeforeMonth(dt.y, dt.m) + (dt.d - 1)) * 24 + dt.h

\* datetime.replace(hour=0, minute=0, second=0, microsecond=0)
ReplaceMidnight(dt) == [dt EXCEPT !.h = 0]

Min(a, b) == IF a < b THEN a ELSE b

\* dt - relativedelta(months=n), 0 <= n <= 12: the month moves back n, the
\* year follows, and the day is clamped to the length of the target month
MinusMonths(dt, n) ==
    LET yy == IF dt.m - n < 1 THEN dt.y - 1 ELSE dt.y
        mm == IF dt.m - n < 1 THEN dt.m - n + 12 ELSE dt.m - n
    IN  [y |-> yy, m |-> mm, d |-> Min(dt.d, DaysInMonth(yy, mm)), h |-> dt.h]

\* Series.dt.floor('D') of one moment
FloorDay(ts) == ts - (ts % 24)

\* Timedelta.days of the difference a - b (floor of the whole days)
DeltaDays(a, b) == (a - b) \div 24

----------------------------------------------------------------------------
(* The CSV file and pandas.read_csv *)

Quote == "'"

NoText == << >>

\* a cell of the date column as written in the file
DateText(y, m, d, h) == [kind |-> "ymdh", y |-> y, m |-> m, d |-> d, h |-> h, ts |-> 0]
EmptyDate == [kind |-> "empty", y |-> 0, m |-> 0, d |-> 0, h |-> 0, ts |-> 0]
NaTCell == [kind |-> "NaT", y |-> 0, m |-> 0, d |-> 0, h |-> 0, ts |-> NaT]
TsCell(t) == [kind |-> "ts", y |-> 0, m |-> 0, d |-> 0, h |-> 0, ts |-> t]

Digits == {"0", "1", "2", "3", "4", "5", "6", "7", "8", "9"}

IsNumeric(s) == Len(s) > 0 /\ \A i \in 1..Len(s) : s[i] \in Digits

Range(s) == {s[i] : i \in 1..Len(s)}

Reverse(s) == [i \in 1..Len(s) |-> s[Len(s) + 1 - i]]

\* the cells the uploaded files are written with: a case identifier in
\* quotes or a bare number; an action at 13:00 of a day, a date the calendar
\* does not hold, or nothing; a label of letters (the files of the model
\* leave no case identifier and no label empty)
CasoCells == { <<Quote, "7", Quote>>, <<"7">> }

FechaCells ==
    { DateText(2023, 1, 31, 13), DateText(2023, 11, 30, 13),
      DateText(2023, 2, 30, 0), EmptyDate }

ActuacionCells == { <<"B">>, <<"A", "b">> }

\* a file without a column has nothing in that column's cells
FileRows(cols) ==
    [caso : IF COL_CASO \in cols THEN CasoCells ELSE {NoText},
     fecha : IF COL_FECHA \in cols THEN FechaCells ELSE {EmptyDate},
     actuacion : IF COL_ACTUACION \in cols THEN ActuacionCells ELSE {NoText}]

SeqsUpTo(S, n) == UNION {[1..k -> S] : k \in 0..n}

\* the header of a file: the three columns, or one of them missing
Headers == {Columns} \cup {Columns \ {c} : c \in Columns}

Files ==
    UNION {[present : {TRUE}, columns : {cols}, rows : SeqsUpTo(FileRows(cols), MaxRows)]
           : cols \in Headers}

NoFile == [present |-> FALSE, columns |-> {}, rows |-> << >>]

\* values of a DataFrame cell: a str, an int64, a float64 or NaN
Str(s) == [t |-> "str", s |-> s]
NaN == [t |-> "nan", s |-> NoText]

\* the dtype read_csv infers for a column of text cells
InferDtype(cells) ==
    IF Len(cells) = 0 THEN "object"
    ELSE IF \A i \in 1..Len(cells) : IsNumeric(cells[i]) THEN "int64"
    ELSE IF \A i \in 1..Len(cells) : IsNumeric(cells[i]) \/ cells[i] = NoText
         THEN "float64"
    ELSE "object"

\* one cell as read_csv stores it in a column of the given dtype
ReadCell(dtype, c) ==
    IF c = NoText THEN NaN
    ELSE IF dtype = "int64" THEN [t |-> "int", s |-> c]
    ELSE IF dtype = "float64" THEN [t |-> "float", s |-> c \o <<".", "0">>]
    ELSE Str(c)

EmptyFrame == [columns |-> {}, dtype_caso |-> "absent", rows |-> << >>]

\* pd.read_csv(uploaded_file): the index is 0, 1, 2, ...
ReadCsv(file) ==
    LET dc == IF COL_CASO \in file.columns
              THEN InferDtype([i \in 1..Len(file.rows) |-> file.rows[i].caso])
              ELSE "absent"
        da == IF COL_ACTUACION \in file.columns
              THEN InferDtype([i \in 1..Len(file.rows) |-> file.rows[i].actuacion])
              ELSE "absent"
    IN  [columns |-> file.columns,
         dtype_caso |-> dc,
         rows |-> [i \in 1..Len(file.rows) |->
                     [idx |-> i - 1,
                      caso |-> ReadCell(dc, file.rows[i].caso),
                      fecha |-> file.rows[i].fecha,
                      actuacion |-> ReadCell(da, file.rows[i].actuacion)]]]

----------------------------------------------------------------------------
(* The pandas operations procesar_datos uses *)

\* Series.astype(str) of one cell
AsTypeStr(cell) == IF cell.t = "nan" THEN <<"n", "a", "n">> ELSE cell.s

\* str.replace with a count of 1: only the first quote leaves
StrReplaceFirstQuote(s) ==
    IF \E i \in 1..Len(s) : s[i] = Quote
    THEN LET k == CHOOSE i \in 1..Len(s) : s[i] = Quote /\ \A j \in 1..(i - 1) : s[j] # Quote
         IN  SubSeq(s, 1, k - 1) \o SubSeq(s, k + 1, Len(s))
    ELSE s

\* Series.str.replace("'", "", regex=False) of one string
StrReplaceQuote(s) == SelectSeq(s, LAMBDA c : c # Quote)

\* lines 24-25: the quotes leave the case column when its dtype is object
LimpiarCaso(df) ==
    IF COL_CASO \in df.columns /\ df.dtype_caso = "object"
    THEN [df EXCEPT !.rows =
            [i \in 1..Len(df.rows) |->
                [df.rows[i] EXCEPT !.caso = Str(StrReplaceQuote(AsTypeStr(df.rows[i].caso)))]]]
    ELSE df

\* whether the text of a cell is a moment of the calendar
Parses(cell) ==
    /\ cell.kind = "ymdh"
    /\ cell.m \in 1..12
    /\ cell.d \in 1..DaysInMonth(cell.y, cell.m)
    /\ cell.h \in 0..23

\* pd.to_datetime of one cell: an empty cell is NaT, and so is, under
\* errors='coerce', a text that is no moment of the calendar
ToDatetime(cell) ==
    IF Parses(cell) THEN TsCell(Timestamp(cell))
    ELSE IF cell.kind = "ts" THEN cell
    ELSE NaTCell

ErrorsRaise == "raise"

\* line 28: the errors argument of pd.to_datetime
Errors == "coerce"

\* pd.to_datetime raises on a text it cannot parse only under errors='raise'
ToDatetimeRaises(df) ==
    /\ Errors = "raise"
    /\ \E i \in 1..Len(df.rows) :
          df.rows[i].fecha.kind = "ymdh" /\ ~Parses(df.rows[i].fecha)

\* line 28: the date column is replaced by its parsed values
ConvertirFecha(df) ==
    [df EXCEPT !.rows =
        [i \in 1..Len(df.rows) |-> [df.rows[i] EXCEPT !.fecha = ToDatetime(df.rows[i].fecha)]]]

\* no row is dropped
DropNaNothing(df) == df

\* line 31: df.dropna(subset=[COL_FECHA], inplace=True)
DropNa(df) ==
    [df EXCEPT !.rows = SelectSeq(df.rows, LAMBDA r : r.fecha.ts # NaT)]

\* Series.unique().tolist(): the distinct values in order of first appearance
RECURSIVE Unique(_)
Unique(s) ==
    IF s = << >> THEN << >>
    ELSE LET u == Unique(SubSeq(s, 1, Len(s) - 1))
         IN  IF s[Len(s)] \in Range(u) THEN u ELSE Append(u, s[Len(s)])

\* the code point of a character of the labels
Ord(c) ==
    CASE c = "A" -> 65 [] c = "B" -> 66 [] c = "a" -> 97 [] c = "b" -> 98
      [] c = "n" -> 110 [] OTHER -> 0

\* Python's str < str: by code point at the first difference, a proper
\* prefix first
RECURSIVE StrLess(_, _)
StrLess(a, b) ==
    IF b = << >> THEN FALSE
    ELSE IF a = << >> THEN TRUE
    ELSE IF Ord(Head(a)) # Ord(Head(b)) THEN Ord(Head(a)) < Ord(Head(b))
    ELSE StrLess(Tail(a), Tail(b))

\* the < of two label values, str with str (the list never holds two NaN)
ValueLess(a, b) == StrLess(a.s, b.s)

\* list.sort() compares a str with a float and raises TypeError when the
\* list holds a str next to NaN
SortRaises(l) ==
    \E i, j \in 1..Len(l) : l[i].t = "nan" /\ l[j].t # "nan"

\* list.sort(): ascending, by insertion
RECURSIVE ListSort(_)
ListSort(l) ==
    IF l = << >> THEN << >>
    ELSE LET t == ListSort(SubSeq(l, 1, Len(l) - 1))
             x == l[Len(l)]
         IN  SelectSeq(t, LAMBDA e : ~ValueLess(x, e)) \o <<x>>
                \o SelectSeq(t, LAMBDA e : ValueLess(x, e))

\* a stable ascending sort of <<key, row>> pairs
RECURSIVE StableAsc(_)
StableAsc(p) ==
    IF p = << >> THEN << >>
    ELSE LET t == StableAsc(SubSeq(p, 1, Len(p) - 1))
             x == p[Len(p)]
         IN  SelectSeq(t, LAMBDA e : e[1] <= x[1]) \o <<x>>
                \o SelectSeq(t, LAMBDA e : e[1] > x[1])

\* DataFrame.sort_values(by=..., ascending=...) with the default
\* kind='quicksort', which pandas documents as not stable: rows come out in
\* the order of their keys, and rows of equal keys in the order the build's
\* sort leaves them (ties = "kept": as they were, "reversed": turned round)
SortValues(pairs, ascending, ties) ==
    LET signed == [i \in 1..Len(pairs) |->
                     <<IF ascending THEN pairs[i][1] ELSE 0 - pairs[i][1], pairs[i][2]>>]
        sorted == StableAsc(IF ties = "kept" THEN signed ELSE Reverse(signed))
    IN  [i \in 1..Len(sorted) |-> sorted[i][2]]

\* the oldest first
ClasificarAscendente(rows, ties) ==
    SortValues([i \in 1..Len(rows) |-> <<rows[i].fecha.ts, rows[i]>>], TRUE, ties)

\* line 38: df.sort_values(by=COL_FECHA, ascending=False)
ClasificarPorFecha(rows, ties) ==
    SortValues([i \in 1..Len(rows) |-> <<rows[i].fecha.ts, rows[i]>>], FALSE, ties)

\* the column as it is, without unique()
ActuacionesRepetidas(rows) == [i \in 1..Len(rows) |-> rows[i].actuacion]

\* line 34: df[COL_ACTUACION].unique().tolist()
Actuaciones(rows) == Unique([i \in 1..Len(rows) |-> rows[i].actuacion])

\* the reference date with the hour of the clock left in
FechaActualConHora(now) == now

\* line 43: the reference date, today at midnight
FechaActual(now) == ReplaceMidnight(now)

\* line 46: the limit, two calendar months before the reference date
FechaLimite(fecha_actual) == MinusMonths(fecha_actual, 2)

\* the limit day itself counted as late
EsAtrasadoInclusive(r, fecha_limite) == FloorDay(r.fecha.ts) <= Timestamp(fecha_limite)

\* line 49: the mask df[COL_FECHA].dt.floor('D') < fecha_limite of one row
EsAtrasado(r, fecha_limite) == FloorDay(r.fecha.ts) < Timestamp(fecha_limite)

\* the age counted from the day of the action, its hour dropped
DiasDesdeElDia(r, fecha_actual) == DeltaDays(Timestamp(fecha_actual), FloorDay(r.fecha.ts))

\* line 53: (fecha_actual - procesos_atrasados[COL_FECHA]).dt.days of one row
DiasDeAntiguedad(r, fecha_actual) == DeltaDays(Timestamp(fecha_actual), r.fecha.ts)

\* lines 53-61: the age column, the four columns, the oldest first
ResultadoAtrasados(atrasados, fecha_actual, ties) ==
    LET con_dias == [i \in 1..Len(atrasados) |->
                       [idx |-> atrasados[i].idx,
                        caso |-> atrasados[i].caso,
                        fecha |-> atrasados[i].fecha,
                        actuacion |-> atrasados[i].actuacion,
                        dias |-> DiasDeAntiguedad(atrasados[i], fecha_actual)]]
    IN  SortValues([i \in 1..Len(con_dias) |-> <<con_dias[i].dias, con_dias[i]>>],
                   FALSE, ties)

NoDate == [y |-> 0, m |-> 0, d |-> 0, h |-> 0]

\* lines 69 and 72: return None, None, None, None, None, None
NoneResult ==
    [ok |-> FALSE, lista_actuaciones |-> << >>, df |-> << >>,
     df_clasificado_fecha |-> << >>, resultado_atrasados |-> << >>,
     fecha_actual |-> NoDate, fecha_limite |-> NoDate]

NoError == [kind |-> "none", names |-> {}]

\* lines 67-72: the except clauses; df keeps what was done to it in place
Fallo(df, kind, names) ==
    [df |-> df, out |-> NoneResult, err |-> [kind |-> kind, names |-> names]]

\* lines 19-72: procesar_datos(df), datetime.now() returning now
ProcesarDatos(df0, now, ties) ==
    LET df1 == LimpiarCaso(df0)
    IN
    IF COL_FECHA \notin df1.columns THEN Fallo(df1, "KeyError", {COL_FECHA})
    ELSE IF ToDatetimeRaises(df1) THEN Fallo(df1, "ValueError", {})
    ELSE
    LET df == DropNa(ConvertirFecha(df1))
    IN
    IF COL_ACTUACION \notin df.columns THEN Fallo(df, "KeyError", {COL_ACTUACION})
    ELSE IF SortRaises(Actuaciones(df.rows)) THEN Fallo(df, "TypeError", {})
    ELSE
    LET lista_actuaciones == ListSort(Actuaciones(df.rows))
        df_clasificado_fecha == ClasificarPorFecha(df.rows, ties)
        fecha_actual == FechaActual(now)
        fecha_limite == FechaLimite(fecha_actual)
        procesos_atrasados == SelectSeq(df.rows, LAMBDA r : EsAtrasado(r, fecha_limite))
    IN
    IF procesos_atrasados # << >> /\ COL_CASO \notin df.columns
    THEN Fallo(df, "KeyError", {COL_CASO})
    ELSE
    [df |-> df,
     out |-> [ok |-> TRUE,
              lista_actuaciones |-> lista_actuaciones,
              df |-> df.rows,
              df_clasificado_fecha |-> df_clasificado_fecha,
              resultado_atrasados |->
                  IF procesos_atrasados # << >>
                  THEN ResultadoAtrasados(procesos_atrasados, fecha_actual, ties)
                  ELSE << >>,
              fecha_actual |-> fecha_actual,
              fecha_limite |-> fecha_limite],
     err |-> NoError]

----------------------------------------------------------------------------
(* The script: lines 88-168 *)

\* no copy: procesar_datos receives df_original itself
DataFrameAlias(h, ref) == [heap |-> h, ref |-> ref]

\* df_original.copy() at line 93: a new object with the same contents
DataFrameCopy(h, ref) == [heap |-> [h EXCEPT !.copy = h[ref]], ref |-> "copy"]

\* lines 95-168: what the script shows for the result of the call, with the
\* actions sel chosen in the sidebar
Render(columns, result, sel) ==
    IF ~result.ok THEN "error"
    ELSE LET df_filtrado_clasificado ==
                 IF sel # {}
                 THEN SelectSeq(result.df_clasificado_fecha, LAMBDA r : r.actuacion \in sel)
                 ELSE << >>
         IN  IF df_filtrado_clasificado # << >> /\ COL_CASO \notin columns
             THEN "KeyError"
             ELSE "tables"

\* lines 90-93: read the file, copy the frame, call procesar_datos on the copy
Llamada(file, now, ties) ==
    LET h0 == [original |-> ReadCsv(file), copy |-> heap.copy]
        c == DataFrameCopy(h0, "original")
        r == ProcesarDatos(c.heap[c.ref], now, ties)
    IN  [heap |-> [c.heap EXCEPT ![c.ref] = r.df], arg |-> c.ref,
         out |-> r.out, err |-> r.err]

\* the moments datetime.now() is seen to return
ClockSamples ==
    { [y |-> 2023, m |-> 4, d |-> 1, h |-> 9],
      [y |-> 2023, m |-> 4, d |-> 1, h |-> 22],
      [y |-> 2024, m |-> 1, d |-> 31, h |-> 15] }

\* the clock does not go back: what a call reads is not before what the
\* call before it read
Now == {now \in ClockSamples : Timestamp(now) >= Timestamp(clock)}

NoPrev == [has |-> FALSE, out |-> NoneResult, at |-> NoDate]

Init ==
    /\ clock = [y |-> 2023, m |-> 1, d |-> 1, h |-> 0]
    /\ quicksort_ties \in {"kept", "reversed"}
    /\ uploaded_file = NoFile
    /\ heap = [original |-> EmptyFrame, copy |-> EmptyFrame]
    /\ arg = "none"
    /\ out = NoneResult
    /\ err = NoError
    /\ view = "waiting"
    /\ prev = NoPrev

\* the user uploads a file: the script runs on it, every action selected
Upload ==
    /\ ~uploaded_file.present
    /\ \E file \in Files, now \in Now :
        \E r \in {Llamada(file, now, quicksort_ties)} :
            /\ uploaded_file' = file
            /\ clock' = now
            /\ heap' = r.heap
            /\ arg' = r.arg
            /\ out' = r.out
            /\ err' = r.err
            /\ view' = Render(r.heap[r.arg].columns, r.out, Range(r.out.lista_actuaciones))
            /\ prev' = NoPrev
            /\ UNCHANGED quicksort_ties

\* the user changes the selection in the sidebar: the script runs again on
\* the same file
Rerun ==
    /\ uploaded_file.present
    /\ \E now \in Now :
        \E r \in {Llamada(uploaded_file, now, quicksort_ties)} :
            /\ clock' = now
            /\ heap' = r.heap
            /\ arg' = r.arg
            /\ out' = r.out
            /\ err' = r.err
            /\ view' \in {Render(r.heap[r.arg].columns, r.out, sel) :
                             sel \in SUBSET Range(r.out.lista_actuaciones)}
            /\ prev' = [has |-> TRUE, out |-> out, at |-> clock]
            /\ UNCHANGED <<uploaded_file, quicksort_ties>>

\* the user takes the file away: the script runs and stops at line 88
Remove ==
    /\ uploaded_file.present
    /\ uploaded_file' = NoFile
    /\ heap' = [original |-> EmptyFrame, copy |-> EmptyFrame]
    /\ arg' = "none"
    /\ out' = NoneResult
    /\ err' = NoError
    /\ view' = "waiting"
    /\ prev' = NoPrev
    /\ UNCHANGED <<clock, quicksort_ties>>

Next == Upload \/ Rerun \/ Remove

Spec == Init /\ [][Next]_vars

----------------------------------------------------------------------------
(* What the claims speak of *)

\* the script has called procesar_datos on the uploaded file
Called == uploaded_file.present

\* the index labels of the rows of a view
IdxOf(rows) == {rows[i].idx : i \in 1..Len(rows)}

\* the three views that hold rows
Views == <<out.df, out.df_clasificado_fecha, out.resultado_atrasados>>

\* the reference date and the limit of the call: midnight of the day the
\* clock showed, and the same day of the month two months earlier, or the
\* last day of that month when it is shorter
ReferenceDay == [clock EXCEPT !.h = 0]

CutoffDay ==
    LET back == IF ReferenceDay.m > 2
                THEN [y |-> ReferenceDay.y, m |-> ReferenceDay.m - 2]
                ELSE [y |-> ReferenceDay.y - 1, m |-> ReferenceDay.m + 10]
        last == DaysInMonth(back.y, back.m)
    IN  [y |-> back.y, m |-> back.m,
         d |-> IF ReferenceDay.d > last THEN last ELSE ReferenceDay.d, h |-> 0]

\* the rows of the uploaded file whose date is absent or does not parse
BadDateIdx ==
    {i - 1 : i \in {k \in 1..Len(uploaded_file.rows) : ~Parses(uploaded_file.rows[k].fecha)}}

HasQuote(cell) == \E k \in 1..Len(cell.s) : cell.s[k] = Quote

----------------------------------------------------------------------------
(* The claims *)

\* C1: after a call that succeeds, a row of the cleaned dataset is among the
\* late processes exactly when its action date, floored to the day, is
\* strictly before the limit, the limit being midnight of the day of the
\* call minus two calendar months; the late processes are rows of the
\* cleaned dataset, and the limit returned is that limit.
C1_StaleIffBeforeCutoff ==
    (Called /\ out.ok) =>
        /\ out.fecha_limite = CutoffDay
        /\ IdxOf(out.resultado_atrasados) \subseteq IdxOf(out.df)
        /\ \A i \in 1..Len(out.df) :
              (out.df[i].idx \in IdxOf(out.resultado_atrasados))
                 <=> (out.df[i].fecha.ts - (out.df[i].fecha.ts % 24) < Timestamp(CutoffDay))

\* C1 witness: a call on the last day of a month whose limit is clamped,
\* with one row dated on the limit day (kept out) and one before it (late)
C1_Witness ==
    /\ Called /\ out.ok
    /\ CutoffDay.d # ReferenceDay.d
    /\ \E i \in 1..Len(out.df) :
          /\ FloorDay(out.df[i].fecha.ts) = Timestamp(CutoffDay)
          /\ out.df[i].idx \notin IdxOf(out.resultado_atrasados)
    /\ out.resultado_atrasados # << >>

\* C2: a call on a file that lacks one of the three columns fails with a
\* KeyError that names the column, returns no result and the script shows
\* no table, whatever the rows hold.
C2_MissingColumnFails ==
    (Called /\ uploaded_file.columns # Columns) =>
        /\ ~out.ok
        /\ err.kind = "KeyError"
        /\ (Columns \ uploaded_file.columns) \subseteq err.names
        /\ view = "error"

\* C3: a row whose date is absent or does not parse is in none of the
\* views, no label of the list comes from such rows alone, every row of
\* every view has a date, and such rows make no call fail: a call fails
\* only for a missing column or for labels that cannot be ordered.
C3_BadDatesDropped ==
    Called =>
        /\ \A v \in 1..3 :
              /\ IdxOf(Views[v]) \cap BadDateIdx = {}
              /\ \A i \in 1..Len(Views[v]) : Views[v][i].fecha.ts # NaT
        /\ \A k \in 1..Len(out.lista_actuaciones) :
              \E i \in 1..Len(uploaded_file.rows) :
                  /\ Parses(uploaded_file.rows[i].fecha)
                  /\ uploaded_file.rows[i].actuacion = out.lista_actuaciones[k].s
        /\ ~out.ok =>
              \/ uploaded_file.columns # Columns
              \/ \E i, j \in 1..Len(uploaded_file.rows) :
                    /\ Parses(uploaded_file.rows[i].fecha)
                    /\ Parses(uploaded_file.rows[j].fecha)
                    /\ uploaded_file.rows[i].actuacion = NoText
                    /\ uploaded_file.rows[j].actuacion # NoText

\* C3 witness: a successful call on a file with a row whose date is absent
\* or does not parse and a row that is kept
C3_Witness ==
    /\ Called /\ out.ok
    /\ BadDateIdx # {}
    /\ Len(out.df) > 0
    /\ Len(out.df) < Len(uploaded_file.rows)

\* C4 as claimed: the classified view is the cleaned dataset by date, the
\* latest first, and rows of equal date keep the order they have in the
\* cleaned dataset.
C4_SortedStable ==
    (Called /\ out.ok) =>
        /\ Len(out.df_clasificado_fecha) = Len(out.df)
        /\ Range(out.df_clasificado_fecha) = Range(out.df)
        /\ \A i, j \in 1..Len(out.df_clasificado_fecha) :
              i < j =>
                 /\ out.df_clasificado_fecha[i].fecha.ts >= out.df_clasificado_fecha[j].fecha.ts
                 /\ out.df_clasificado_fecha[i].fecha.ts = out.df_clasificado_fecha[j].fecha.ts
                       => out.df_clasificado_fecha[i].idx < out.df_clasificado_fecha[j].idx

\* C4 amended: the classified view holds exactly the rows of the cleaned
\* dataset, by date, the latest first (nothing is said of equal dates).
C4_SortedByDateDescending ==
    (Called /\ out.ok) =>
        /\ Len(out.df_clasificado_fecha) = Len(out.df)
        /\ Range(out.df_clasificado_fecha) = Range(out.df)
        /\ \A i, j \in 1..Len(out.df_clasificado_fecha) :
              i < j => out.df_clasificado_fecha[i].fecha.ts >= out.df_clasificado_fecha[j].fecha.ts

\* C4 witness: the sort moved a later row in front of an earlier one
C4_Witness ==
    /\ Called /\ out.ok
    /\ Len(out.df) >= 2
    /\ out.df[1].fecha.ts < out.df[2].fecha.ts
    /\ out.df_clasificado_fecha[1] = out.df[2]

\* C5: the age of every late process is the whole days from its action
\* date, hour included, to midnight of the day of the call, and is not
\* negative.
C5_AgeDays ==
    (Called /\ out.ok) =>
        \A i \in 1..Len(out.resultado_atrasados) :
            LET s == out.resultado_atrasados[i]
                t == Timestamp(uploaded_file.rows[s.idx + 1].fecha)
            IN  /\ s.fecha.ts = t
                /\ s.dias >= 0
                /\ s.dias * 24 <= Timestamp(ReferenceDay) - t
                /\ Timestamp(ReferenceDay) - t < (s.dias + 1) * 24

\* C5 witness: a late process whose action was not at midnight
C5_Witness ==
    /\ Called /\ out.ok
    /\ \E i \in 1..Len(out.resultado_atrasados) :
          out.resultado_atrasados[i].fecha.ts % 24 # 0

\* C6: after a call that succeeds no case identifier of any view holds a
\* quote, whatever dtype the column was read with.
C6_NoQuoteInCaso ==
    (Called /\ out.ok) =>
        \A v \in 1..3 : \A i \in 1..Len(Views[v]) : ~HasQuote(Views[v][i].caso)

\* C6 witness: a row written with quotes round its case identifier is in
\* the views, late processes included
C6_Witness ==
    /\ Called /\ out.ok
    /\ \E i \in 1..Len(out.resultado_atrasados) :
          \E k \in 1..Len(uploaded_file.rows[out.resultado_atrasados[i].idx + 1].caso) :
              uploaded_file.rows[out.resultado_atrasados[i].idx + 1].caso[k] = Quote

\* C7: a call on a file with the three columns and no row, or with no row
\* whose date parses, succeeds with an empty list, empty views and the two
\* dates.
C7_EmptyIsNoError ==
    (Called /\ uploaded_file.columns = Columns
            /\ BadDateIdx = {n - 1 : n \in 1..Len(uploaded_file.rows)}) =>
        /\ out.ok
        /\ err = NoError
        /\ out.lista_actuaciones = << >>
        /\ out.df = << >>
        /\ out.df_clasificado_fecha = << >>
        /\ out.resultado_atrasados = << >>
        /\ out.fecha_actual = ReferenceDay
        /\ out.fecha_limite = CutoffDay

\* C7 witness: a call on a file whose rows, one of them written as a date
\* the calendar does not hold, are all dropped
C7_Witness ==
    /\ Called /\ out.ok
    /\ uploaded_file.columns = Columns
    /\ Len(uploaded_file.rows) = 2
    /\ out.df = << >>
    /\ \E i \in 1..2 : uploaded_file.rows[i].fecha.kind = "ymdh"

C9_SameFileSameResult ==
    prev.has => prev.out = out

\* C9 amended: two calls on the same file made on the same calendar day
\* return the same six values; nothing of the first call is left in the
\* second.
C9_SameFileSameDaySameResult ==
    (prev.has /\ [prev.at EXCEPT !.h = 0] = [clock EXCEPT !.h = 0]) => prev.out = out

\* C9 witness: two successful calls at different hours of one day
C9_Witness ==
    /\ prev.has /\ out.ok
    /\ prev.at # clock
    /\ [prev.at EXCEPT !.h = 0] = [clock EXCEPT !.h = 0]
    /\ out.resultado_atrasados # << >>

\* C10: after a call, failed or not, df_original is the file as read:
\* every row, the dates as text, the case identifiers with their quotes.
C10_OriginalUnchanged ==
    Called => heap.original = ReadCsv(uploaded_file)

\* C10 witness: the call dropped a row and took quotes away in the copy it
\* was given
C10_Witness ==
    /\ Called
    /\ arg = "copy"
    /\ Len(heap.copy.rows) < Len(heap.original.rows)
    /\ \E i \in 1..Len(heap.copy.rows) :
          \E j \in 1..Len(heap.original.rows) :
              /\ heap.original.rows[j].idx = heap.copy.rows[i].idx
              /\ HasQuote(heap.original.rows[j].caso)
              /\ ~HasQuote(heap.copy.rows[i].caso)

====
